---------------------------- MODULE Spec2Model ----------------------------
(***************************************************************************)
(* Model of the two feed services of venkytv/rss-feeds:                    *)
(*   atlasobscura/atlasobscura.go  (tweets -> URL fixing -> cached feed)   *)
(*   hackernews/hackernews.go      (story ids -> story lookups -> feed)    *)
(* Each service is a process with a scheduler thread (main, then the       *)
(* ticker goroutine) and a request-handler thread.  A batch is the         *)
(* producer goroutine, the pool of worker goroutines, the closer goroutine *)
(* and the aggregator's drain loop, with unbuffered channels modelled as   *)
(* rendezvous steps.                                                       *)
(***************************************************************************)
EXTENDS Integers, Sequences, FiniteSets, TLC

(* ------------------------------ bounds -------------------------------- *)
\* Size of the worker pool in the model (numFixers is 10, NumStoryLookups 50).
NumWorkers == 2
\* Longest batch the source reader hands over.
MaxItems == 2
\* Creation timestamps range over 1..MaxTs.
MaxTs == 2
\* The clock runs over 0..MaxClock.
MaxClock == 2
\* Longest timeline when the whole service runs (scheduler and requests).
MaxFeed == 1
\* Longest tweet text, in tokens, and longest timeline the normalizer is
\* applied to on its own.
MaxText == 2
MaxRaw == 2
\* Most query parameters of a resolved URL.
MaxQuery == 2

(* --------------------------- program constants ------------------------ *)
\* go-cache: cache.NoExpiration and cache.DefaultExpiration
NoExpiration == -1
DefaultExpiration == 0

Threads == {"sched", "req"}
NoFeed == [found |-> FALSE]
NoRet == [set |-> FALSE]
NoResp == [kind |-> "none"]
NoRes == [done |-> FALSE]

VARIABLES
  aoTimeline,   \* the upstream timeline reader.getTweets reads
  aoNow,        \* wall clock
  aoCache,      \* FeedConfig.Cache, key "feed": NoFeed or an item
  aoCtxDone,    \* main's ctx (context.WithTimeout(Background, Timeout)) is done
  aoListening,  \* srv.ListenAndServe is accepting requests
  aoFatal,      \* "none", or the thread whose log.Fatal ended the process
  aoBoot,       \* outcome of the startup cacheFeed: "pending", "stored", "readfail"
  aoPc,         \* per thread: where it is
  aoItems,      \* per thread: the batch handed to fixAllUrls
  aoGen,        \* per thread: gen's goroutine, index of the next item to send
  aoFlight,     \* per thread: the fixers holding an item, as [pc, item, err]
  aoDone,       \* per thread: fixers that have returned and called wg.Done
  aoClosed,     \* per thread: close(c) has run
  aoOut,        \* per thread: fixAllUrls' out slice
  aoRet,        \* per thread: what fixAllUrls returned
  aoErrs,       \* per thread: client.Head calls of the batch that returned an error
  aoResp        \* what the client of the request in progress received

aoVars == << aoTimeline, aoNow, aoCache, aoCtxDone, aoListening, aoFatal, aoBoot, aoPc,
             aoItems, aoGen, aoFlight, aoDone, aoClosed, aoOut, aoRet, aoErrs, aoResp >>

VARIABLES
  hnUpstream,   \* upstream: best-story id -> the story's creation timestamp
  hnNow,        \* wall clock, in units of CacheTime
  hnCache,      \* storyCache: story id -> NoStory or an item
  hnListening,  \* srv.ListenAndServe is accepting requests
  hnPc,         \* per thread: where it is
  hnCtx,        \* per thread: getStories' ctx: "live", "deadline" or "canceled"
  hnIds,        \* per thread: the ids handed to getStories
  hnGen,        \* per thread: the id pump goroutine, index of the next id
  hnFlight,     \* per thread: the consumers holding an id, as [pc, id, story, err]
  hnDone,       \* per thread: consumers that left the loop and called wg.Done
  hnGone,       \* per thread: consumers that returned on ctx.Done, no wg.Done
  hnClosed,     \* per thread: close(story_chan) has run
  hnOut,        \* per thread: getStories' stories slice
  hnRet,        \* per thread: what getStories returned
  hnErrs,       \* per thread: lookups of the batch that returned an error
  hnCalls,      \* per thread: getStory calls the batch has made
  hnResp        \* what the client of the request in progress received

hnVars == << hnUpstream, hnNow, hnCache, hnListening, hnPc, hnCtx, hnIds,
             hnGen, hnFlight, hnDone, hnGone, hnClosed, hnOut, hnRet, hnErrs,
             hnCalls, hnResp >>

\* A function of the programs applied on its own to an input.
VARIABLES
  fnOp,         \* which function: "off" when a service runs instead
  fnArg,        \* its input
  fnRes         \* NoRes, or what it returned

fnVars == << fnOp, fnArg, fnRes >>

vars == << aoVars, hnVars, fnVars >>


(* ------------------------- shared pure helpers ------------------------ *)
Range(s) == { s[i] : i \in 1..Len(s) }

Swap(s, i, j) == [s EXCEPT ![i] = s[j], ![j] = s[i]]

\* go-cache Set(k, x, d): a duration of DefaultExpiration takes the cache's
\* default; only a positive duration yields an expiry instant (0 = never).
CacheExpiration(now, d, defaultExpiration) ==
  LET dd == IF d = DefaultExpiration THEN defaultExpiration ELSE d
  IN  IF dd > 0 THEN now + dd ELSE 0

\* go-cache New(de, ci): a default expiration of 0 means NoExpiration.
CacheNew(de) == IF de = 0 THEN NoExpiration ELSE de

\* go-cache Get: an entry whose expiry instant has passed is not found.
CacheLive(e, now) ==
  e.found /\ ~(e.Expiration > 0 /\ now > e.Expiration)

(* ============================ atlasobscura ============================ *)
\* FeedItem: Title stands for the tweet's text (its position in the timeline),
\* Url is "raw" as tweeted or "fixed" once resolved and stripped of utm_*.
FeedItemOf(i, ts) == [Title |-> i, Url |-> "raw", Created |-> ts]

\* A tweet's one-line text as a sequence of tokens: "w" a run of non-space
\* characters, "s" a whitespace character, "U" a run that starts with
\* http:// or https://.
Tokens == {"w", "s", "U"}

\* A tweet_re that matches a URL anywhere in the text.
tweet_reAnyUrl(text) ==
  LET hits == { i \in 1..Len(text) : text[i] = "U" }
  IN  IF hits = {} THEN << >>
      ELSE LET i == CHOOSE h \in hits : \A g \in hits : h <= g
           IN  << text, SubSeq(text, 1, i - 1), SubSeq(text, i, Len(text)) >>

\* tweet_re.FindStringSubmatch(tweet) for (.*?)\s(https?://.*): nil, or the
\* match, the text before the first whitespace that a URL follows, and the
\* rest from that URL on.
tweet_re(text) ==
  LET hits == { i \in 1..(Len(text) - 1) : text[i] = "s" /\ text[i + 1] = "U" }
  IN  IF hits = {} THEN << >>
      ELSE LET i == CHOOSE h \in hits : \A g \in hits : h <= g
           IN  << text, SubSeq(text, 1, i - 1), SubSeq(text, i + 1, Len(text)) >>

\* Timelines getTweets can return: tweets with or without a URL, with a
\* CreatedAt that parses to an instant of 1..MaxTs or (0) does not parse.
Tweets == [Text : { <<"w", "s", "U">>, <<"w">> }, CreatedAt : 0..MaxTs]
Timelines == UNION { [1..n -> Tweets] : n \in 0..MaxItems }

\* fetchFeedItems' loop: a tweet without URL or with a bad time is skipped.
RECURSIVE normalize(_, _)
normalize(tweets, i) ==
  IF i > Len(tweets) THEN << >>
  ELSE IF Len(tweet_re(tweets[i].Text)) < 2 \/ tweets[i].CreatedAt = 0
       THEN normalize(tweets, i + 1)
       ELSE << FeedItemOf(i, tweets[i].CreatedAt) >> \o normalize(tweets, i + 1)

\* Every text of at most MaxText tokens, with a CreatedAt that parses (1) or
\* does not (0).
Texts == UNION { [1..n -> Tokens] : n \in 0..MaxText }
RawTweets == [Text : Texts, CreatedAt : {0, 1}]
RawTimelines == UNION { [1..n -> RawTweets] : n \in 0..MaxRaw }

\* A timeline with more tweets than fixAllUrls has fixers, each with a URL
\* and a good time.
PoolItems == NumWorkers + 2
LongTimeline ==
  [i \in 1..PoolItems |-> [Text |-> << "w", "s", "U" >>, CreatedAt |-> 1]]

\* A less that orders the records oldest first.
aoLessOldestFirst(a, b) == a.Created < b.Created

\* sort.Slice's less of fixAllUrls: out[i].Created.After(out[j].Created)
aoLess(a, b) == a.Created > b.Created

\* sort.Slice on a short slice is an insertion sort (Go's pdqsort below 12
\* elements): element i sinks while it is less than its left neighbour.
RECURSIVE aoSink(_, _)
aoSink(s, j) ==
  IF j > 1 /\ aoLess(s[j], s[j - 1]) THEN aoSink(Swap(s, j, j - 1), j - 1) ELSE s

RECURSIVE aoInsertionSort(_, _)
aoInsertionSort(s, i) ==
  IF i > Len(s) THEN s ELSE aoInsertionSort(aoSink(s, i), i + 1)

aoSortSlice(s) == aoInsertionSort(s, 2)

\* genFeed: the Atom document lists the items in the order given, under the
\* feed's creation time.
genFeed(items, createTime) == [Created |-> createTime, Items |-> items]

\* A resolved URL as a string of tokens: the part up to the path, then "?"
\* and the first query parameter, then "&" and a parameter for each further
\* one. A parameter's token is its name; utm_source and utm_campaign start
\* with "utm_".
Params == {"utm_source", "utm_campaign", "id"}
isUtm(p) == p \in {"utm_source", "utm_campaign"}
Queries == UNION { [1..n -> Params] : n \in 0..MaxQuery }

RECURSIVE UrlString(_)
UrlString(q) ==
  IF q = << >> THEN << "https://site.example/a" >>
  ELSE UrlString(SubSeq(q, 1, Len(q) - 1))
         \o << IF Len(q) = 1 THEN "?" ELSE "&", q[Len(q)] >>

\* utm_re.ReplaceAllString(url, "") for \?utm_.*$ : from the first "?" that
\* "utm_" directly follows to the end of the string; the string as it is
\* when there is none.
utm_re(url) ==
  LET hits == { i \in 1..(Len(url) - 1) : url[i] = "?" /\ isUtm(url[i + 1]) }
  IN  IF hits = {} THEN url
      ELSE SubSeq(url, 1, (CHOOSE h \in hits : \A g \in hits : h <= g) - 1)

\* fixer's success branch: the item carries the resolved, utm-stripped URL.
fixUrl(item) == [item EXCEPT !.Url = "fixed"]


\* A WaitGroup that was told of one fixer less than were started.
aoWgOneShort(t) == IF aoDone[t] < NumWorkers - 1 THEN NumWorkers - 1 - aoDone[t] ELSE 0

\* sync.WaitGroup counter of a batch: fixers that have not called wg.Done.
aoWg(t) == NumWorkers - aoDone[t]

aoFeedFound == CacheLive(aoCache, aoNow)

\* The process is up: started and not ended by a log.Fatal.
aoRunning == aoFatal = "none" /\ aoPc["sched"] # "off"

\* Where a thread goes when its cacheFeed call returns.
aoAfterCacheFeed(t) ==
  IF t = "req" THEN "reget" ELSE IF aoListening THEN "ticked" ELSE "booted"

aoBootAfter(t, outcome) ==
  IF t = "sched" /\ ~aoListening THEN outcome ELSE aoBoot

aoStart(timelines) ==
  /\ aoTimeline \in timelines
  /\ aoNow = 0
  /\ aoCache = NoFeed
  /\ aoCtxDone = FALSE
  /\ aoListening = FALSE
  /\ aoFatal = "none"
  /\ aoBoot = "pending"
  /\ aoPc = [t \in Threads |-> IF t = "sched" THEN "main" ELSE "idle"]
  /\ aoItems = [t \in Threads |-> << >>]
  /\ aoGen = [t \in Threads |-> 1]
  /\ aoFlight = [t \in Threads |-> {}]
  /\ aoDone = [t \in Threads |-> 0]
  /\ aoClosed = [t \in Threads |-> FALSE]
  /\ aoOut = [t \in Threads |-> << >>]
  /\ aoRet = [t \in Threads |-> NoRet]
  /\ aoErrs = [t \in Threads |-> 0]
  /\ aoResp = NoResp

aoInit == aoStart(Timelines)

aoServiceInit == aoStart({ tl \in Timelines : Len(tl) <= MaxFeed })


\* Batch state untouched by a step of thread-level code.
aoBatchUnchanged == UNCHANGED << aoItems, aoGen, aoFlight, aoDone, aoClosed, aoOut, aoRet, aoErrs >>
aoProcUnchanged == UNCHANGED << fnVars, hnVars, aoTimeline, aoNow, aoCache, aoCtxDone, aoListening, aoFatal, aoBoot >>

\* fixAllUrls starts on a batch: gen's goroutine, numFixers idle fixers, the
\* closer goroutine waiting, an empty out.
aoBatch(t, items) ==
  /\ aoItems' = [aoItems EXCEPT ![t] = items]
  /\ aoGen' = [aoGen EXCEPT ![t] = 1]
  /\ aoFlight' = [aoFlight EXCEPT ![t] = {}]
  /\ aoDone' = [aoDone EXCEPT ![t] = 0]
  /\ aoClosed' = [aoClosed EXCEPT ![t] = FALSE]
  /\ aoOut' = [aoOut EXCEPT ![t] = << >>]
  /\ aoRet' = [aoRet EXCEPT ![t] = NoRet]
  /\ aoErrs' = [aoErrs EXCEPT ![t] = 0]

\* The goroutines and locals of a finished fixAllUrls call are dropped.
aoForget(t) == aoBatch(t, << >>)

\* main: "Cache feed at startup", cacheFeed(ctx, reader, feedConfig)
aoMainStart ==
  /\ aoRunning /\ aoPc["sched"] = "main"
  /\ aoPc' = [aoPc EXCEPT !["sched"] = "reading"]
  /\ aoProcUnchanged /\ aoBatchUnchanged /\ UNCHANGED aoResp

\* A main that starts the listener without waiting for the startup cacheFeed.
aoListenGuardEarly == aoPc["sched"] \in {"main", "reading", "drain", "booted"}

\* main after the startup cacheFeed: the ticker goroutine and ListenAndServe
aoListenGuard == aoPc["sched"] = "booted"

aoStartServer ==
  /\ aoRunning /\ aoListenGuard /\ ~aoListening
  /\ aoListening' = TRUE
  /\ aoPc' = [aoPc EXCEPT !["sched"] = IF @ = "booted" THEN "idle" ELSE @]
  /\ IF aoPc["sched"] = "booted" THEN aoForget("sched") ELSE aoBatchUnchanged
  /\ UNCHANGED << fnVars, hnVars, aoTimeline, aoNow, aoCache, aoCtxDone, aoFatal, aoBoot, aoResp >>

\* A ticker that runs each cacheFeed in a goroutine of its own: a tick during
\* a refresh starts the next one over it.
aoTickerFireAsync ==
  /\ aoRunning /\ aoListening /\ aoPc["sched"] \in {"idle", "reading", "drain"}
  /\ aoPc' = [aoPc EXCEPT !["sched"] = "reading"]
  /\ aoProcUnchanged /\ aoBatchUnchanged /\ UNCHANGED aoResp

\* ticker goroutine: case <-ticker.C: cacheFeed(...)
aoTickerFire ==
  /\ aoRunning /\ aoPc["sched"] = "idle"
  /\ aoPc' = [aoPc EXCEPT !["sched"] = "reading"]
  /\ aoProcUnchanged /\ aoBatchUnchanged /\ UNCHANGED aoResp

\* ticker goroutine: cacheFeed returned, back to the select
aoTickerLoop ==
  /\ aoRunning /\ aoPc["sched"] = "ticked"
  /\ aoPc' = [aoPc EXCEPT !["sched"] = "idle"]
  /\ aoForget("sched")
  /\ aoProcUnchanged /\ UNCHANGED aoResp

\* fetchFeedItems up to the call of fixAllUrls: reader.getTweets fails, or
\* yields a timeline that is normalized and handed to gen and the fixers.
aoGetTweets(t) ==
  /\ aoRunning /\ aoPc[t] = "reading"
  /\ \/ /\ aoPc' = [aoPc EXCEPT ![t] = aoAfterCacheFeed(t)]
        /\ aoBoot' = aoBootAfter(t, "readfail")
        /\ aoBatchUnchanged
     \/ /\ aoPc' = [aoPc EXCEPT ![t] = "drain"]
        /\ aoBatch(t, normalize(aoTimeline, 1))
        /\ UNCHANGED aoBoot
  /\ UNCHANGED << fnVars, hnVars, aoTimeline, aoNow, aoCache, aoCtxDone, aoListening, aoFatal, aoResp >>

\* fixers blocked in "for item := range items"
\* A pool that starts a fixer for every item offered.
aoIdleFixersUnbounded(t) == 1

\* fixers waiting in "for item := range items"
aoIdleFixers(t) == NumWorkers - Cardinality(aoFlight[t]) - aoDone[t]

\* gen's goroutine meets a fixer's "for item := range items"
aoFixerRecv(t) ==
  /\ aoRunning /\ aoPc[t] = "drain"
  /\ aoIdleFixers(t) > 0
  /\ aoGen[t] <= Len(aoItems[t])
  /\ aoFlight' = [aoFlight EXCEPT ![t] =
                    @ \cup { [pc |-> "head", item |-> aoItems[t][aoGen[t]], err |-> FALSE] }]
  /\ aoGen' = [aoGen EXCEPT ![t] = @ + 1]
  /\ aoProcUnchanged
  /\ UNCHANGED << aoPc, aoItems, aoDone, aoClosed, aoOut, aoRet, aoErrs, aoResp >>

\* A gen whose goroutine never closes out.
genWithoutClose(t) == FALSE

\* gen's goroutine: close(out)
gen(t) ==
  /\ aoRunning /\ aoPc[t] = "drain"
  /\ aoGen[t] = Len(aoItems[t]) + 1
  /\ aoGen' = [aoGen EXCEPT ![t] = @ + 1]
  /\ aoProcUnchanged
  /\ UNCHANGED << aoPc, aoItems, aoFlight, aoDone, aoClosed, aoOut, aoRet, aoErrs, aoResp >>

\* fixer: the range over a closed, drained items channel ends; wg.Done
aoFixerEnd(t) ==
  /\ aoRunning /\ aoPc[t] = "drain"
  /\ aoIdleFixers(t) > 0
  /\ aoGen[t] = Len(aoItems[t]) + 2
  /\ aoDone' = [aoDone EXCEPT ![t] = @ + 1]
  /\ aoProcUnchanged
  /\ UNCHANGED << aoPc, aoItems, aoGen, aoFlight, aoClosed, aoOut, aoRet, aoErrs, aoResp >>

\* fixer: client.Head(item.Url) returns
aoFixerHead(t, f) ==
  /\ aoRunning /\ aoPc[t] = "drain"
  /\ f \in aoFlight[t] /\ f.pc = "head"
  /\ \E ok \in BOOLEAN :
       /\ aoFlight' = [aoFlight EXCEPT ![t] = (@ \ {f}) \cup
                        { [pc |-> "send",
                           item |-> IF ok THEN fixUrl(f.item) ELSE f.item,
                           err |-> ~ok] }]
       /\ aoErrs' = [aoErrs EXCEPT ![t] = IF ok THEN @ ELSE @ + 1]
  /\ aoProcUnchanged
  /\ UNCHANGED << aoPc, aoItems, aoGen, aoDone, aoClosed, aoOut, aoRet, aoResp >>

\* A fixAllUrls that skips an error result and goes on collecting.
aoFixerSendSkipsError(t, f) ==
  /\ aoRunning /\ aoPc[t] = "drain"
  /\ f \in aoFlight[t] /\ f.pc = "send"
  /\ aoFlight' = [aoFlight EXCEPT ![t] = @ \ {f}]
  /\ aoOut' = [aoOut EXCEPT ![t] = IF f.err THEN @ ELSE Append(@, f.item)]
  /\ UNCHANGED << fnVars, hnVars, aoTimeline, aoNow, aoCache, aoCtxDone, aoListening, aoBoot >>
  /\ UNCHANGED << aoPc, aoItems, aoGen, aoDone, aoClosed, aoErrs, aoResp, aoRet, aoFatal >>

\* fixer's select, case c <- Result{item, err}, met by fixAllUrls' range c:
\* an error makes fixAllUrls return (nil, err) and fetchFeedItems log.Fatal.
aoFixerSend(t, f) ==
  /\ aoRunning /\ aoPc[t] = "drain"
  /\ f \in aoFlight[t] /\ f.pc = "send"
  /\ aoFlight' = [aoFlight EXCEPT ![t] = @ \ {f}]
  /\ IF f.err
     THEN /\ aoRet' = [aoRet EXCEPT ![t] = [set |-> TRUE, items |-> << >>, err |-> TRUE]]
          /\ aoFatal' = t
          /\ UNCHANGED aoOut
     ELSE /\ aoOut' = [aoOut EXCEPT ![t] = Append(@, f.item)]
          /\ UNCHANGED << aoRet, aoFatal >>
  /\ UNCHANGED << fnVars, hnVars, aoTimeline, aoNow, aoCache, aoCtxDone, aoListening, aoBoot >>
  /\ UNCHANGED << aoPc, aoItems, aoGen, aoDone, aoClosed, aoErrs, aoResp >>

\* fixer's select, case <-ctx.Done(): return; then wg.Done in the wrapper
aoFixerCancel(t, f) ==
  /\ aoRunning /\ aoPc[t] = "drain"
  /\ f \in aoFlight[t] /\ f.pc = "send"
  /\ aoCtxDone
  /\ aoFlight' = [aoFlight EXCEPT ![t] = @ \ {f}]
  /\ aoDone' = [aoDone EXCEPT ![t] = @ + 1]
  /\ aoProcUnchanged
  /\ UNCHANGED << aoPc, aoItems, aoGen, aoClosed, aoOut, aoRet, aoErrs, aoResp >>

\* fixAllUrls' closer goroutine: wg.Wait(); close(c)
aoCloser(t) ==
  /\ aoRunning /\ aoPc[t] = "drain"
  /\ aoWg(t) = 0 /\ ~aoClosed[t]
  /\ aoClosed' = [aoClosed EXCEPT ![t] = TRUE]
  /\ aoProcUnchanged
  /\ UNCHANGED << aoPc, aoItems, aoGen, aoFlight, aoDone, aoOut, aoRet, aoErrs, aoResp >>

\* A Cache.Set("feed", ..) whose entry lives for one unit of the clock.
aoCacheSetExpiring(feed) ==
  [found |-> TRUE, val |-> feed,
   Expiration |-> CacheExpiration(aoNow, 1, CacheNew(0))]

\* cacheFeed's Cache.Set("feed", feed, cache.NoExpiration) on cache.New(0, 0)
aoCacheSet(feed) ==
  [found |-> TRUE, val |-> feed,
   Expiration |-> CacheExpiration(aoNow, NoExpiration, CacheNew(0))]

\* A cacheFeed that adds its items to those of the document already stored.
cacheFeedAppending(t) ==
  /\ aoRunning /\ aoPc[t] = "drain"
  /\ aoClosed[t]
  /\ LET out == aoSortSlice(aoOut[t])
     IN  /\ aoRet' = [aoRet EXCEPT ![t] = [set |-> TRUE, items |-> out, err |-> FALSE]]
         /\ aoCache' = aoCacheSet(genFeed((IF aoCache.found THEN aoCache.val.Items
                                           ELSE << >>) \o out, aoNow))
  /\ aoPc' = [aoPc EXCEPT ![t] = aoAfterCacheFeed(t)]
  /\ aoBoot' = aoBootAfter(t, "stored")
  /\ UNCHANGED << fnVars, hnVars, aoTimeline, aoNow, aoCtxDone, aoListening, aoFatal >>
  /\ UNCHANGED << aoItems, aoGen, aoFlight, aoDone, aoClosed, aoOut, aoErrs, aoResp >>

\* fixAllUrls: range c ends on the closed channel, sort, return (out, nil);
\* fetchFeedItems returns; cacheFeed builds the feed and stores it.
fixAllUrls(t) ==
  /\ aoRunning /\ aoPc[t] = "drain"
  /\ aoClosed[t]
  /\ LET out == aoSortSlice(aoOut[t])
     IN  /\ aoRet' = [aoRet EXCEPT ![t] = [set |-> TRUE, items |-> out, err |-> FALSE]]
         /\ aoCache' = aoCacheSet(genFeed(out, aoNow))
  /\ aoPc' = [aoPc EXCEPT ![t] = aoAfterCacheFeed(t)]
  /\ aoBoot' = aoBootAfter(t, "stored")
  /\ UNCHANGED << fnVars, hnVars, aoTimeline, aoNow, aoCtxDone, aoListening, aoFatal >>
  /\ UNCHANGED << aoItems, aoGen, aoFlight, aoDone, aoClosed, aoOut, aoErrs, aoResp >>

\* a GET arrives at the listener and feedHandler runs
aoRequest ==
  /\ aoRunning /\ aoListening /\ aoPc["req"] = "idle"
  /\ aoPc' = [aoPc EXCEPT !["req"] = "lookup"]
  /\ aoResp' = NoResp
  /\ aoProcUnchanged /\ aoBatchUnchanged

\* fetchCachedFeed: Cache.Get("feed"); found: the handler writes it out;
\* not found: cacheFeed is called inline.
fetchCachedFeed ==
  /\ aoRunning /\ aoPc["req"] = "lookup"
  /\ IF aoFeedFound
     THEN /\ aoResp' = [kind |-> "ok", body |-> aoCache.val]
          /\ aoPc' = [aoPc EXCEPT !["req"] = "responded"]
     ELSE /\ aoPc' = [aoPc EXCEPT !["req"] = "reading"]
          /\ UNCHANGED aoResp
  /\ aoProcUnchanged /\ aoBatchUnchanged

\* fetchCachedFeed after the inline cacheFeed: the second Cache.Get and
\* feed.(string), which panics on the nil of a missing entry; net/http
\* recovers the panic and drops the connection without a response.
aoRefetch ==
  /\ aoRunning /\ aoPc["req"] = "reget"
  /\ aoResp' = IF aoFeedFound THEN [kind |-> "ok", body |-> aoCache.val]
               ELSE [kind |-> "crash"]
  /\ aoPc' = [aoPc EXCEPT !["req"] = "responded"]
  /\ aoForget("req")
  /\ aoProcUnchanged

\* the request is over
aoRequestDone ==
  /\ aoRunning /\ aoPc["req"] = "responded"
  /\ aoPc' = [aoPc EXCEPT !["req"] = "idle"]
  /\ aoResp' = NoResp
  /\ aoProcUnchanged /\ aoBatchUnchanged

\* main's ctx reaches its deadline (Timeout after process start)
aoDeadline ==
  /\ aoRunning /\ ~aoCtxDone
  /\ aoCtxDone' = TRUE
  /\ UNCHANGED << fnVars, hnVars, aoTimeline, aoNow, aoCache, aoListening, aoFatal, aoBoot, aoPc, aoResp >>
  /\ aoBatchUnchanged

\* time passes
aoTick ==
  /\ aoRunning /\ aoNow < MaxClock
  /\ aoNow' = aoNow + 1
  /\ UNCHANGED << fnVars, hnVars, aoTimeline, aoCache, aoCtxDone, aoListening, aoFatal, aoBoot, aoPc, aoResp >>
  /\ aoBatchUnchanged

\* One thread's batch: gen, the fixers, the closer and fixAllUrls' drain loop.
aoPipeline(t) ==
  \/ aoGetTweets(t)
  \/ aoFixerRecv(t)
  \/ aoFixerEnd(t)
  \/ gen(t)
  \/ aoCloser(t)
  \/ fixAllUrls(t)
  \/ \E f \in aoFlight[t] : aoFixerHead(t, f)
  \/ \E f \in aoFlight[t] : aoFixerSend(t, f)
  \/ \E f \in aoFlight[t] : aoFixerCancel(t, f)

\* The scheduler thread alone: the startup refresh and the ticker's refreshes.
aoRefreshNext ==
  \/ aoMainStart
  \/ aoStartServer
  \/ aoTickerFire
  \/ aoTickerLoop
  \/ aoDeadline
  \/ aoPipeline("sched")

\* The whole service: scheduler, one request at a time, the clock.
aoNext ==
  \/ aoMainStart
  \/ aoStartServer
  \/ aoTickerFire
  \/ aoTickerLoop
  \/ aoRequest
  \/ fetchCachedFeed
  \/ aoRefetch
  \/ aoRequestDone
  \/ aoDeadline
  \/ aoTick
  \/ \E t \in Threads : aoPipeline(t)

(* ============================= hackernews ============================= *)
\* CacheTime (24 h) is the unit of the clock hnNow
CacheTime == 1

Titles == {"v1", "v2"}
NoStory == [found |-> FALSE]
ZeroStory == [ID |-> 0, Timestamp |-> 0, Title |-> ""]

\* Upstream states: a set of best-story ids, each with its creation time.
Upstreams == UNION { [S -> 1..MaxTs] : S \in SUBSET (1..MaxItems) }

\* getTopStoryIDs' sort.Slice: topStories[i] < topStories[j]; the upstream
\* list is taken in any order and sorted ascending.
RECURSIVE ascending(_)
ascending(S) ==
  IF S = {} THEN << >>
  ELSE LET m == CHOOSE x \in S : \A y \in S : x <= y
       IN  << m >> \o ascending(S \ {m})

\* sort.Slice's less of getStories: stories[i].Timestamp > stories[j].Timestamp
hnLess(a, b) == a.Timestamp > b.Timestamp

RECURSIVE hnSink(_, _)
hnSink(s, j) ==
  IF j > 1 /\ hnLess(s[j], s[j - 1]) THEN hnSink(Swap(s, j, j - 1), j - 1) ELSE s

RECURSIVE hnInsertionSort(_, _)
hnInsertionSort(s, i) ==
  IF i > Len(s) THEN s ELSE hnInsertionSort(hnSink(s, i), i + 1)

hnSortSlice(s) == hnInsertionSort(s, 2)

\* A storyCache.Get that never finds anything.
hnCachedNever(id) == FALSE

\* storyCache.Get(idStr) on the cache main builds with cache.New(CacheTime, ..)
hnCached(id) == CacheLive(hnCache[id], hnNow)

\* storyCache.Set(idStr, story, cache.NoExpiration)
hnCacheSet(story) ==
  [found |-> TRUE, val |-> story,
   Expiration |-> CacheExpiration(hnNow, NoExpiration, CacheNew(CacheTime))]

\* storyHandler's feed: the stories in the order given, under CacheTime()
hnFeed(stories, createTime) == [Created |-> createTime, Items |-> stories]

\* the deferred cancel() of getStories: a ctx past its deadline stays so
cancel(ctx) == IF ctx = "live" THEN "canceled" ELSE ctx

\* <-ctx.Done() is ready
hnCtxDone(t) == hnCtx[t] # "live"

hnBatchUnchanged ==
  UNCHANGED << hnCtx, hnIds, hnGen, hnFlight, hnDone, hnGone, hnClosed, hnOut, hnRet, hnErrs, hnCalls >>
hnProcUnchanged == UNCHANGED << fnVars, aoVars, hnUpstream, hnNow, hnCache, hnListening >>

\* getStories starts on a batch: a fresh ctx, the id pump, NumStoryLookups
\* idle consumers, the closer goroutine waiting, an empty stories slice.
\* hnGen = 0 stands for "no batch".
hnBatch(t, ids, first) ==
  /\ hnCtx' = [hnCtx EXCEPT ![t] = "live"]
  /\ hnIds' = [hnIds EXCEPT ![t] = ids]
  /\ hnGen' = [hnGen EXCEPT ![t] = first]
  /\ hnFlight' = [hnFlight EXCEPT ![t] = {}]
  /\ hnDone' = [hnDone EXCEPT ![t] = 0]
  /\ hnGone' = [hnGone EXCEPT ![t] = 0]
  /\ hnClosed' = [hnClosed EXCEPT ![t] = FALSE]
  /\ hnOut' = [hnOut EXCEPT ![t] = << >>]
  /\ hnRet' = [hnRet EXCEPT ![t] = NoRet]
  /\ hnErrs' = [hnErrs EXCEPT ![t] = 0]
  /\ hnCalls' = [hnCalls EXCEPT ![t] = 0]

\* The goroutines and locals of a finished getStories call are dropped.
hnForget(t) == hnBatch(t, << >>, 0)

hnStart(upstreams) ==
  /\ hnUpstream \in upstreams
  /\ hnNow = 0
  /\ hnCache = [id \in DOMAIN hnUpstream |-> NoStory]
  /\ hnListening = FALSE
  /\ hnPc = [t \in Threads |-> IF t = "sched" THEN "main" ELSE "idle"]
  /\ hnCtx = [t \in Threads |-> "live"]
  /\ hnIds = [t \in Threads |-> << >>]
  /\ hnGen = [t \in Threads |-> 0]
  /\ hnFlight = [t \in Threads |-> {}]
  /\ hnDone = [t \in Threads |-> 0]
  /\ hnGone = [t \in Threads |-> 0]
  /\ hnClosed = [t \in Threads |-> FALSE]
  /\ hnOut = [t \in Threads |-> << >>]
  /\ hnRet = [t \in Threads |-> NoRet]
  /\ hnErrs = [t \in Threads |-> 0]
  /\ hnCalls = [t \in Threads |-> 0]
  /\ hnResp = NoResp

hnInit == hnStart(Upstreams)

\* A story list with more ids than getStories has consumers.
LongUpstream == [id \in 1..PoolItems |-> 1]

hnServiceInit == hnStart({ u \in Upstreams : Cardinality(DOMAIN u) <= MaxFeed })

\* Where the scheduler thread goes when its getTopStories call returns.
hnAfterRefresh == IF hnListening THEN "ticked" ELSE "booted"

\* main: "Cache stories at startup", getTopStories(api, storyCache)
hnMainStart ==
  /\ hnPc["sched"] = "main"
  /\ hnPc' = [hnPc EXCEPT !["sched"] = "listing"]
  /\ hnProcUnchanged /\ hnBatchUnchanged /\ UNCHANGED hnResp

\* main after the startup getTopStories: the ticker goroutine, ListenAndServe
hnStartServer ==
  /\ hnPc["sched"] = "booted"
  /\ hnListening' = TRUE
  /\ hnPc' = [hnPc EXCEPT !["sched"] = "idle"]
  /\ hnForget("sched")
  /\ UNCHANGED << fnVars, aoVars, hnUpstream, hnNow, hnCache, hnResp >>

\* ticker goroutine: case <-ticker.C: getTopStories(api, storyCache)
hnTickerFire ==
  /\ hnPc["sched"] = "idle"
  /\ hnPc' = [hnPc EXCEPT !["sched"] = "listing"]
  /\ hnProcUnchanged /\ hnBatchUnchanged /\ UNCHANGED hnResp

\* ticker goroutine: getTopStories returned, back to the select
hnTickerLoop ==
  /\ hnPc["sched"] = "ticked"
  /\ hnPc' = [hnPc EXCEPT !["sched"] = "idle"]
  /\ hnForget("sched")
  /\ hnProcUnchanged /\ UNCHANGED hnResp

\* a GET arrives at the listener and storyHandler calls getTopStories
hnRequest ==
  /\ hnListening /\ hnPc["req"] = "idle"
  /\ hnPc' = [hnPc EXCEPT !["req"] = "listing"]
  /\ hnResp' = NoResp
  /\ hnProcUnchanged /\ hnBatchUnchanged

\* getTopStories returns an error to its caller: main and the ticker drop
\* it, storyHandler answers http.Error(.., StatusInternalServerError).
hnFail(t) ==
  /\ hnPc' = [hnPc EXCEPT ![t] = IF t = "req" THEN "responded" ELSE hnAfterRefresh]
  /\ hnResp' = IF t = "req" THEN [kind |-> "error"] ELSE hnResp

\* getTopStoryIDs: the list request fails, or yields the ids, sorted, which
\* getTopStories hands to getStories.
getTopStoryIDs(t) ==
  /\ hnPc[t] = "listing"
  /\ \/ hnFail(t) /\ hnBatchUnchanged
     \/ /\ hnPc' = [hnPc EXCEPT ![t] = "drain"]
        /\ hnBatch(t, ascending(DOMAIN hnUpstream), 1)
        /\ UNCHANGED hnResp
  /\ hnProcUnchanged

\* consumers blocked in "for id := range id_chan"
hnIdleConsumers(t) == NumWorkers - Cardinality(hnFlight[t]) - hnDone[t] - hnGone[t]

\* A getStoryFromCache that goes to the network whatever the cache holds.
getStoryFromCacheAlwaysFetch(id) ==
  [pc |-> "fetch", id |-> id, story |-> ZeroStory, err |-> FALSE]

\* getStoryFromCache up to the network: storyCache.Get(idStr)
getStoryFromCache(id) ==
  IF hnCached(id)
  THEN [pc |-> "send", id |-> id, story |-> hnCache[id].val, err |-> FALSE]
  ELSE [pc |-> "fetch", id |-> id, story |-> ZeroStory, err |-> FALSE]

\* A lookup that waits while another batch is fetching the same id.
hnConsumerRecvExclusive(t) ==
  /\ hnGen[t] >= 1 /\ hnGen[t] <= Len(hnIds[t])
  /\ hnIdleConsumers(t) > 0
  /\ \A u \in Threads \ {t} : \A g \in hnFlight[u] :
       ~(g.pc = "fetch" /\ g.id = hnIds[t][hnGen[t]])
  /\ LET f == getStoryFromCache(hnIds[t][hnGen[t]])
     IN  /\ hnFlight' = [hnFlight EXCEPT ![t] = @ \cup {f}]
         /\ hnCalls' = [hnCalls EXCEPT ![t] = IF f.pc = "fetch" THEN @ + 1 ELSE @]
  /\ hnGen' = [hnGen EXCEPT ![t] = @ + 1]
  /\ hnProcUnchanged
  /\ UNCHANGED << hnPc, hnCtx, hnIds, hnDone, hnGone, hnClosed, hnOut, hnRet, hnErrs, hnResp >>

\* the id pump meets a consumer's "for id := range id_chan", which calls
\* getStoryFromCache
hnConsumerRecv(t) ==
  /\ hnGen[t] >= 1 /\ hnGen[t] <= Len(hnIds[t])
  /\ hnIdleConsumers(t) > 0
  /\ LET f == getStoryFromCache(hnIds[t][hnGen[t]])
     IN  /\ hnFlight' = [hnFlight EXCEPT ![t] = @ \cup {f}]
         /\ hnCalls' = [hnCalls EXCEPT ![t] = IF f.pc = "fetch" THEN @ + 1 ELSE @]
  /\ hnGen' = [hnGen EXCEPT ![t] = @ + 1]
  /\ hnProcUnchanged
  /\ UNCHANGED << hnPc, hnCtx, hnIds, hnDone, hnGone, hnClosed, hnOut, hnRet, hnErrs, hnResp >>

\* the id pump: close(id_chan)
hnPump(t) ==
  /\ hnGen[t] = Len(hnIds[t]) + 1
  /\ hnGen' = [hnGen EXCEPT ![t] = @ + 1]
  /\ hnProcUnchanged
  /\ UNCHANGED << hnCalls, hnPc, hnCtx, hnIds, hnFlight, hnDone, hnGone, hnClosed, hnOut, hnRet, hnErrs, hnResp >>

\* consumer: the range over the closed, drained id_chan ends; wg.Done
hnConsumerEnd(t) ==
  /\ hnGen[t] = Len(hnIds[t]) + 2
  /\ hnIdleConsumers(t) > 0
  /\ hnDone' = [hnDone EXCEPT ![t] = @ + 1]
  /\ hnProcUnchanged
  /\ UNCHANGED << hnCalls, hnPc, hnCtx, hnIds, hnGen, hnFlight, hnGone, hnClosed, hnOut, hnRet, hnErrs, hnResp >>

\* A story's URL: scheme://host/ and the segments of the path.
StoryUrls ==
  [scheme : {"https", "http"},
   host : {"twitter.com", "x.com", "example.com"},
   path : { << "user", "status", "id" >>, << "user" >>, << >> }]
StoryUrlLists == UNION { [1..n -> StoryUrls] : n \in 0..MaxRaw }

\* re.FindStringSubmatch(URL) for TwitterRE = ^https://(?:twitter|x)\.com/(.*)
\* : nil, or the match and the part after the host's slash.
TwitterRE(url) ==
  IF url.scheme = "https" /\ url.host \in {"twitter.com", "x.com"}
  THEN << url, url.path >>
  ELSE << >>

\* fmt.Sprintf(ThreaderURL, rest) for ThreaderURL = "https://nitter.net/%s"
ThreaderURL(rest) == [scheme |-> "https", host |-> "nitter.net", path |-> rest]

\* unrollTwitterThread: every URL that TwitterRE matches is replaced.
unrollTwitterThread(stories) ==
  [idx \in DOMAIN stories |->
     LET m == TwitterRE(stories[idx])
     IN  IF Len(m) > 0 THEN ThreaderURL(m[2]) ELSE stories[idx]]

\* What getStory makes of a response: json.Unmarshal fills the Story from
\* the body of a 2xx response; the status is not looked at and Unmarshal's
\* error is dropped, so any other body leaves the zero Story; then story.ID
\* = id.
Bodies == Titles \cup {"non2xx"}
storyOf(id, body) ==
  IF body \in Titles
  THEN [ID |-> id, Timestamp |-> hnUpstream[id], Title |-> body]
  ELSE [ZeroStory EXCEPT !.ID = id]

\* A getStoryFromCache that stores the zero Story of a failed getStory.
getStoryCachesError(t, f) ==
  /\ f \in hnFlight[t] /\ f.pc = "fetch"
  /\ hnFlight' = [hnFlight EXCEPT ![t] =
                    (@ \ {f}) \cup { [f EXCEPT !.pc = "send", !.err = TRUE] }]
  /\ hnErrs' = [hnErrs EXCEPT ![t] = @ + 1]
  /\ hnCache' = [hnCache EXCEPT ![f.id] = hnCacheSet(ZeroStory)]
  /\ UNCHANGED << fnVars, aoVars, hnUpstream, hnNow, hnListening >>
  /\ UNCHANGED << hnCalls, hnPc, hnCtx, hnIds, hnGen, hnDone, hnGone, hnClosed, hnOut, hnRet, hnResp >>

\* getStory returns inside getStoryFromCache: a transport error is passed
\* on; a story is stored with storyCache.Set and passed on.
getStory(t, f) ==
  /\ f \in hnFlight[t] /\ f.pc = "fetch"
  /\ \/ /\ hnFlight' = [hnFlight EXCEPT ![t] =
                          (@ \ {f}) \cup { [f EXCEPT !.pc = "send", !.err = TRUE] }]
        /\ hnErrs' = [hnErrs EXCEPT ![t] = @ + 1]
        /\ UNCHANGED hnCache
     \/ \E body \in Bodies :
          LET story == storyOf(f.id, body)
          IN  /\ hnFlight' = [hnFlight EXCEPT ![t] =
                                (@ \ {f}) \cup { [f EXCEPT !.pc = "send", !.story = story] }]
              /\ hnCache' = [hnCache EXCEPT ![f.id] = hnCacheSet(story)]
              /\ UNCHANGED hnErrs
  /\ UNCHANGED << fnVars, aoVars, hnUpstream, hnNow, hnListening >>
  /\ UNCHANGED << hnCalls, hnPc, hnCtx, hnIds, hnGen, hnDone, hnGone, hnClosed, hnOut, hnRet, hnResp >>

\* consumer's select, case story_chan <- StoryLookup{s, err}, met by
\* getStories' range story_chan: an error makes getStories return (nil, err)
\* with its deferred cancel(), and getTopStories pass the error on.
hnConsumerSend(t, f) ==
  /\ hnPc[t] = "drain"
  /\ f \in hnFlight[t] /\ f.pc = "send"
  /\ hnFlight' = [hnFlight EXCEPT ![t] = @ \ {f}]
  /\ IF f.err
     THEN /\ hnRet' = [hnRet EXCEPT ![t] = [set |-> TRUE, items |-> << >>, err |-> TRUE]]
          /\ hnCtx' = [hnCtx EXCEPT ![t] = cancel(@)]
          /\ hnFail(t)
          /\ UNCHANGED hnOut
     ELSE /\ hnOut' = [hnOut EXCEPT ![t] = Append(@, f.story)]
          /\ UNCHANGED << hnRet, hnCtx, hnPc, hnResp >>
  /\ hnProcUnchanged
  /\ UNCHANGED << hnIds, hnGen, hnDone, hnGone, hnClosed, hnErrs, hnCalls >>

\* consumer's select, case <-ctx.Done(): return, which skips wg.Done
hnConsumerCancel(t, f) ==
  /\ f \in hnFlight[t] /\ f.pc = "send"
  /\ hnCtxDone(t)
  /\ hnFlight' = [hnFlight EXCEPT ![t] = @ \ {f}]
  /\ hnGone' = [hnGone EXCEPT ![t] = @ + 1]
  /\ hnProcUnchanged
  /\ UNCHANGED << hnCalls, hnPc, hnCtx, hnIds, hnGen, hnDone, hnClosed, hnOut, hnRet, hnErrs, hnResp >>

\* sync.WaitGroup counter of a batch: consumers that have not called wg.Done
hnWg(t) == NumWorkers - hnDone[t]

\* getStories' closer goroutine: wg.Wait(); close(story_chan)
hnCloser(t) ==
  /\ hnGen[t] >= 1
  /\ hnWg(t) = 0 /\ ~hnClosed[t]
  /\ hnClosed' = [hnClosed EXCEPT ![t] = TRUE]
  /\ hnProcUnchanged
  /\ UNCHANGED << hnCalls, hnPc, hnCtx, hnIds, hnGen, hnFlight, hnDone, hnGone, hnOut, hnRet, hnErrs, hnResp >>

\* getStories: range story_chan ends on the closed channel, sort, return
\* (stories, nil) with the deferred cancel(); getTopStories returns them;
\* storyHandler builds the feed of them and writes it out.
getStories(t) ==
  /\ hnPc[t] = "drain"
  /\ hnClosed[t]
  /\ LET stories == hnSortSlice(hnOut[t])
     IN  /\ hnRet' = [hnRet EXCEPT ![t] = [set |-> TRUE, items |-> stories, err |-> FALSE]]
         /\ hnResp' = IF t = "req"
                      THEN [kind |-> "ok", body |-> hnFeed(stories, hnNow)]
                      ELSE hnResp
  /\ hnCtx' = [hnCtx EXCEPT ![t] = cancel(@)]
  /\ hnPc' = [hnPc EXCEPT ![t] = IF t = "req" THEN "responded" ELSE hnAfterRefresh]
  /\ hnProcUnchanged
  /\ UNCHANGED << hnIds, hnGen, hnFlight, hnDone, hnGone, hnClosed, hnOut, hnErrs, hnCalls >>

\* the request is over
hnRequestDone ==
  /\ hnPc["req"] = "responded"
  /\ hnPc' = [hnPc EXCEPT !["req"] = "idle"]
  /\ hnResp' = NoResp
  /\ hnForget("req")
  /\ hnProcUnchanged

\* getStories' ctx reaches its deadline (Timeout after the call began)
hnDeadline(t) ==
  /\ hnPc[t] = "drain" /\ ~hnCtxDone(t)
  /\ hnCtx' = [hnCtx EXCEPT ![t] = "deadline"]
  /\ hnProcUnchanged
  /\ UNCHANGED << hnCalls, hnPc, hnIds, hnGen, hnFlight, hnDone, hnGone, hnClosed, hnOut, hnRet, hnErrs, hnResp >>

\* time passes
hnTick ==
  /\ hnPc["sched"] # "off"
  /\ hnNow < MaxClock
  /\ hnNow' = hnNow + 1
  /\ UNCHANGED << fnVars, aoVars, hnUpstream, hnCache, hnListening, hnPc, hnResp >>
  /\ hnBatchUnchanged

\* One thread's batch: the id pump, the consumers, the closer and getStories'
\* drain loop.
hnPipeline(t) ==
  \/ getTopStoryIDs(t)
  \/ hnConsumerRecv(t)
  \/ hnConsumerEnd(t)
  \/ hnPump(t)
  \/ hnCloser(t)
  \/ getStories(t)
  \/ hnDeadline(t)
  \/ \E f \in hnFlight[t] : getStory(t, f)
  \/ \E f \in hnFlight[t] : hnConsumerSend(t, f)
  \/ \E f \in hnFlight[t] : hnConsumerCancel(t, f)

\* The scheduler thread alone: the startup refresh and the ticker's refreshes.
hnRefreshNext ==
  \/ hnMainStart
  \/ hnStartServer
  \/ hnTickerFire
  \/ hnTickerLoop
  \/ hnPipeline("sched")

\* The whole service: scheduler, one request at a time, the clock.
hnNext ==
  \/ hnMainStart
  \/ hnStartServer
  \/ hnTickerFire
  \/ hnTickerLoop
  \/ hnRequest
  \/ hnRequestDone
  \/ hnTick
  \/ \E t \in Threads : hnPipeline(t)

(* ======================= the two programs' runs ======================= *)
\* A behaviour is a run of one of the two programs; the other one's
\* variables rest in a state where nothing of it is running.
aoOff ==
  /\ aoTimeline = << >>
  /\ aoNow = 0
  /\ aoCache = NoFeed
  /\ aoCtxDone = FALSE
  /\ aoListening = FALSE
  /\ aoFatal = "none"
  /\ aoBoot = "pending"
  /\ aoPc = [t \in Threads |-> "off"]
  /\ aoItems = [t \in Threads |-> << >>]
  /\ aoGen = [t \in Threads |-> 1]
  /\ aoFlight = [t \in Threads |-> {}]
  /\ aoDone = [t \in Threads |-> 0]
  /\ aoClosed = [t \in Threads |-> FALSE]
  /\ aoOut = [t \in Threads |-> << >>]
  /\ aoRet = [t \in Threads |-> NoRet]
  /\ aoErrs = [t \in Threads |-> 0]
  /\ aoResp = NoResp

hnOff ==
  /\ hnUpstream = << >>
  /\ hnNow = 0
  /\ hnCache = [id \in {} |-> NoStory]
  /\ hnListening = FALSE
  /\ hnPc = [t \in Threads |-> "off"]
  /\ hnCtx = [t \in Threads |-> "live"]
  /\ hnIds = [t \in Threads |-> << >>]
  /\ hnGen = [t \in Threads |-> 0]
  /\ hnFlight = [t \in Threads |-> {}]
  /\ hnDone = [t \in Threads |-> 0]
  /\ hnGone = [t \in Threads |-> 0]
  /\ hnClosed = [t \in Threads |-> FALSE]
  /\ hnOut = [t \in Threads |-> << >>]
  /\ hnRet = [t \in Threads |-> NoRet]
  /\ hnErrs = [t \in Threads |-> 0]
  /\ hnCalls = [t \in Threads |-> 0]
  /\ hnResp = NoResp

\* No function is applied on its own while a service runs.
fnOff == fnOp = "off" /\ fnArg = << >> /\ fnRes = NoRes

\* fetchFeedItems' loop applied to a timeline.
fnNormalize ==
  /\ fnOp = "normalize" /\ ~fnRes.done
  /\ fnRes' = [done |-> TRUE, val |-> normalize(fnArg, 1)]
  /\ UNCHANGED << fnOp, fnArg, aoVars, hnVars >>

\* fixer's utm_re.ReplaceAllString applied to a resolved URL.
fnUtm ==
  /\ fnOp = "utm_re" /\ ~fnRes.done
  /\ fnRes' = [done |-> TRUE, val |-> utm_re(fnArg)]
  /\ UNCHANGED << fnOp, fnArg, aoVars, hnVars >>

\* unrollTwitterThread applied to a list of stories.
fnUnroll ==
  /\ fnOp = "unrollTwitterThread" /\ ~fnRes.done
  /\ fnRes' = [done |-> TRUE, val |-> unrollTwitterThread(fnArg)]
  /\ UNCHANGED << fnOp, fnArg, aoVars, hnVars >>

FnInit ==
  /\ aoOff /\ hnOff /\ fnRes = NoRes
  /\ \/ fnOp = "normalize" /\ fnArg \in RawTimelines
     \/ fnOp = "utm_re" /\ fnArg \in { UrlString(q) : q \in Queries }
     \/ fnOp = "unrollTwitterThread" /\ fnArg \in StoryUrlLists

FnNext == fnNormalize \/ fnUtm \/ fnUnroll

\* The pure functions of both programs, each applied to one input.
SpecFn == FnInit /\ [][FnNext]_vars

RefreshInit == fnOff /\ ((aoInit /\ hnOff) \/ (aoOff /\ hnInit))

RefreshNext == aoRefreshNext \/ hnRefreshNext

\* The refresh path of either program: the scheduler thread and its batches.
SpecRefresh == RefreshInit /\ [][RefreshNext]_vars

\* The startup refresh of either program on a batch longer than the worker
\* pool.
PoolInit ==
  fnOff /\ ((aoStart({LongTimeline}) /\ hnOff) \/ (aoOff /\ hnStart({LongUpstream})))

PoolNext ==
  \/ aoMainStart
  \/ aoDeadline
  \/ aoPipeline("sched")
  \/ hnMainStart
  \/ hnPipeline("sched")

SpecPool == PoolInit /\ [][PoolNext]_vars

Init == fnOff /\ ((aoServiceInit /\ hnOff) \/ (aoOff /\ hnServiceInit))

Next == aoNext \/ hnNext

\* Either program as a whole.
Spec == Init /\ [][Next]_vars

\* atlasobscura as a whole.
InitAO == aoServiceInit /\ hnOff /\ fnOff

SpecAO == InitAO /\ [][aoNext]_vars

\* hackernews as a whole.
InitHN == aoOff /\ hnServiceInit /\ fnOff

SpecHN == InitHN /\ [][hnNext]_vars


\* atlasobscura between two ticks: the startup refresh, the listener, the
\* requests and the clock, with no ticker refresh under way.
aoServeNext ==
  \/ aoMainStart
  \/ aoStartServer
  \/ aoRequest
  \/ fetchCachedFeed
  \/ aoRefetch
  \/ aoRequestDone
  \/ aoDeadline
  \/ aoTick
  \/ \E t \in Threads : aoPipeline(t)

SpecServe == InitAO /\ [][aoServeNext]_vars

\* atlasobscura with the ticker's refreshes and the requests side by side,
\* at one instant of the clock.
aoFillNext ==
  \/ aoMainStart
  \/ aoStartServer
  \/ aoTickerFire
  \/ aoTickerLoop
  \/ aoRequest
  \/ fetchCachedFeed
  \/ aoRefetch
  \/ aoRequestDone
  \/ aoDeadline
  \/ \E t \in Threads : aoPipeline(t)

\* Timelines of tweets that the normalizer keeps, all of one instant.
FillInit ==
  /\ aoStart({ tl \in Timelines :
                 /\ Len(tl) <= MaxFeed
                 /\ \A i \in 1..Len(tl) :
                      tl[i] = [Text |-> << "w", "s", "U" >>, CreatedAt |-> 1] })
  /\ hnOff /\ fnOff

SpecFill == FillInit /\ [][aoFillNext]_vars

\* hackernews with the ticker's refreshes and the requests side by side, at
\* one instant of the clock, on a story list of one id.
RaceInit ==
  /\ hnStart({ u \in Upstreams : DOMAIN u = {1} /\ u[1] = 1 })
  /\ aoOff /\ fnOff

hnRaceNext ==
  \/ hnMainStart
  \/ hnStartServer
  \/ hnTickerFire
  \/ hnTickerLoop
  \/ hnRequest
  \/ hnRequestDone
  \/ \E t \in Threads : hnPipeline(t)

SpecRace == RaceInit /\ [][hnRaceNext]_vars

\* hackernews between two ticks: the startup refresh, the listener, the
\* requests and the clock, with no ticker refresh under way.
hnServeNext ==
  \/ hnMainStart
  \/ hnStartServer
  \/ hnRequest
  \/ hnRequestDone
  \/ hnTick
  \/ \E t \in Threads : hnPipeline(t)

SpecHNServe == InitHN /\ [][hnServeNext]_vars

(* ================================ claims =============================== *)
aoNewestFirst(s) == \A i, j \in 1..Len(s) : i < j => s[i].Created >= s[j].Created
hnNewestFirst(s) == \A i, j \in 1..Len(s) : i < j => s[i].Timestamp >= s[j].Timestamp

\* C1: a batch of N records in which no enrichment call fails and the
\* deadline does not fire makes fixAllUrls, and getStories, return a nil
\* error and exactly the N records, one per input record, newest first; and
\* until it has returned, such a batch always has a step to take.
C1_CleanBatchSortedComplete ==
  /\ \A t \in Threads :
       /\ (aoRet[t].set /\ aoErrs[t] = 0 /\ ~aoCtxDone) =>
            /\ ~aoRet[t].err
            /\ Len(aoRet[t].items) = Len(aoItems[t])
            /\ Range(aoRet[t].items) = { fixUrl(x) : x \in Range(aoItems[t]) }
            /\ aoNewestFirst(aoRet[t].items)
       /\ (aoRunning /\ aoPc[t] = "drain" /\ aoErrs[t] = 0 /\ ~aoCtxDone) =>
            ENABLED aoPipeline(t)
  /\ \A t \in Threads :
       /\ (hnRet[t].set /\ hnErrs[t] = 0 /\ hnCtx[t] # "deadline") =>
            /\ ~hnRet[t].err
            /\ Len(hnRet[t].items) = Len(hnIds[t])
            /\ { x.ID : x \in Range(hnRet[t].items) } = Range(hnIds[t])
            /\ hnNewestFirst(hnRet[t].items)
       /\ (hnPc[t] = "drain" /\ hnErrs[t] = 0 /\ hnCtx[t] = "live") =>
            ENABLED hnPipeline(t)

\* C1 witness: fixAllUrls has returned two records without error or
\* deadline, and the sort has reordered the arrivals.
C1_Witness ==
  /\ aoRet["sched"].set /\ ~aoRet["sched"].err
  /\ aoErrs["sched"] = 0 /\ ~aoCtxDone
  /\ Len(aoRet["sched"].items) = 2
  /\ aoRet["sched"].items # aoOut["sched"]
  /\ aoRet["sched"].items[1].Created > aoRet["sched"].items[2].Created


\* C2: a batch in which exactly one enrichment call fails returns an error
\* (and so writes no feed built of that batch's records to the cache).
C2_OneFailureIsAnError ==
  \A t \in Threads :
    /\ (aoRet[t].set /\ aoErrs[t] = 1) => aoRet[t].err
    /\ (hnRet[t].set /\ hnErrs[t] = 1) => hnRet[t].err

\* C2's failure reached: one HEAD failed, yet fixAllUrls returned a nil error
\* and cacheFeed stored a feed of the remaining records.
C2_Reached ==
  /\ aoRet["sched"].set /\ ~aoRet["sched"].err /\ aoErrs["sched"] = 1
  /\ aoCache.found /\ aoCache.val.Items = aoRet["sched"].items

\* C3: fixAllUrls never returns a nil error together with fewer records than
\* it was given, and the feed in the cache is never built of fewer records
\* than the batch that wrote it.
C3_NoPartialResult ==
  \A t \in Threads :
    (aoRet[t].set /\ ~aoRet[t].err) =>
      /\ Len(aoRet[t].items) = Len(aoItems[t])
      /\ (aoCache.found /\ aoCache.val.Items = aoRet[t].items) =>
           Len(aoCache.val.Items) = Len(aoItems[t])

\* C3's failure reached: the deadline has fired, fixAllUrls was given two
\* records and returned fewer with a nil error, and cacheFeed stored them.
C3_Reached ==
  /\ aoCtxDone /\ aoErrs["sched"] = 0
  /\ aoRet["sched"].set /\ ~aoRet["sched"].err
  /\ Len(aoItems["sched"]) = 2 /\ Len(aoRet["sched"].items) < 2
  /\ aoCache.found /\ aoCache.val.Items = aoRet["sched"].items

\* C4: getStories' drain loop is never left blocked for good: while it
\* ranges over story_chan, the channel is closed, or a consumer is still
\* running, or the WaitGroup is at zero so that the closer will close it.
C4_DrainNeverBlockedForever ==
  \A t \in Threads :
    hnPc[t] = "drain" =>
      \/ hnClosed[t]
      \/ hnFlight[t] # {}
      \/ hnIdleConsumers(t) > 0
      \/ hnWg(t) = 0

\* C4's failure reached: the deadline fired, every consumer has returned,
\* one of them past wg.Done, and getStories is still ranging over a
\* story_chan nobody will close.
C4_Reached ==
  /\ hnPc["sched"] = "drain" /\ hnCtx["sched"] = "deadline"
  /\ hnFlight["sched"] = {} /\ hnIdleConsumers("sched") = 0
  /\ hnGone["sched"] > 0 /\ ~hnClosed["sched"]

\* C5: a refresh run by the ticker that ends in an error leaves the process
\* running, and the scheduler goes back to its select for the next tick.
C5_FailedRefreshKeepsProcess ==
  /\ (aoListening /\ aoRet["sched"].set /\ aoRet["sched"].err) =>
       (aoFatal = "none" /\ aoPc["sched"] \in {"ticked", "idle"})
  /\ (hnListening /\ hnRet["sched"].set /\ hnRet["sched"].err) =>
       hnPc["sched"] \in {"ticked", "idle"}

\* C5's failure reached: a ticker refresh met an enrichment error and
\* fetchFeedItems ended the process.
C5_Reached ==
  /\ aoListening /\ aoFatal = "sched"
  /\ aoRet["sched"].set /\ aoRet["sched"].err

\* C6: a refresh that fails (the source read fails, or the batch ends with
\* an error or without all of its records) leaves the "feed" entry as it
\* was.
C6_FailedRefreshKeepsFeed ==
  [][\A t \in Threads :
       /\ (aoPc[t] = "reading" /\ aoPc'[t] \notin {"reading", "drain"}) =>
            aoCache' = aoCache
       /\ (aoPc[t] = "drain" /\ aoRet'[t].set /\ aoRet'[t].err) =>
            aoCache' = aoCache
       /\ (aoPc[t] = "drain" /\ aoPc'[t] # "drain"
             /\ Len(aoOut[t]) < Len(aoItems[t])) =>
            aoCache' = aoCache]_vars

\* C6's failure reached: a ticker refresh that lost records to the deadline
\* has replaced the startup refresh's feed with a shorter one.
C6_Reached ==
  /\ aoListening /\ aoPc["sched"] = "ticked" /\ aoCtxDone
  /\ aoBoot = "stored"
  /\ aoRet["sched"].set /\ ~aoRet["sched"].err
  /\ Len(aoRet["sched"].items) < Len(aoItems["sched"])
  /\ aoCache.val.Items = aoRet["sched"].items

\* C7 as stated: whenever the server is accepting requests the cache holds
\* a feed.
C7_ListeningImpliesFeed == aoListening => aoFeedFound

\* C7, amended: whenever the server is accepting requests the startup
\* cacheFeed has run to its end; if it stored a feed the cache holds a feed
\* from then on; if it failed reading the source the server listens all the
\* same.
C7_ListeningAfterStartupRefresh ==
  aoListening =>
    /\ aoBoot \in {"stored", "readfail"}
    /\ aoBoot = "stored" => aoFeedFound

\* C7 witness: the server is listening after a startup refresh that stored a
\* feed of two records, and the ticker goroutine waits for its first tick.
C7_Witness ==
  /\ aoListening /\ aoBoot = "stored" /\ aoFeedFound
  /\ Len(aoCache.val.Items) = 2 /\ aoPc["sched"] = "idle"

\* C8: once cacheFeed has stored a feed, a fetchCachedFeed returns exactly
\* the stored document, at whatever later time, without starting getTweets
\* or a fixer and without writing the cache; and the entry stays found.
C8_CachedFeedServedAsStored ==
  [][/\ (aoCache.found /\ aoPc["req"] = "lookup" /\ aoPc'["req"] # "lookup") =>
          /\ aoPc'["req"] = "responded"
          /\ aoResp' = [kind |-> "ok", body |-> aoCache.val]
          /\ aoCache' = aoCache
          /\ aoItems'["req"] = aoItems["req"]
          /\ aoFlight'["req"] = aoFlight["req"]
          /\ aoGen'["req"] = aoGen["req"]
     /\ aoCache.found => aoFeedFound']_vars

\* C8 witness: a request has been answered from the cache with the feed the
\* startup refresh stored two clock units earlier.
C8_Witness ==
  /\ aoPc["req"] = "responded" /\ aoResp.kind = "ok"
  /\ aoBoot = "stored" /\ aoResp.body = aoCache.val
  /\ aoResp.body.Created = 0 /\ aoNow = MaxClock
  /\ Len(aoResp.body.Items) >= 1

\* C9: a request ends with the feed or, when there is no cached feed and the
\* inline fill fails, with an error response; the handler never crashes and
\* the process is never ended by a request.
C9_FailedFillIsAnErrorResponse ==
  /\ aoPc["req"] = "responded" => aoResp.kind \in {"ok", "error"}
  /\ aoFatal # "req"
  /\ hnPc["req"] = "responded" => hnResp.kind \in {"ok", "error"}

\* C9's failure reached: no feed was cached, the inline cacheFeed failed
\* reading the source, and feed.(string) panicked in the handler.
C9_Reached ==
  /\ aoPc["req"] = "responded" /\ aoResp.kind = "crash"
  /\ aoBoot = "readfail" /\ ~aoCache.found

\* C10: a consumer that takes an id the story cache holds passes the cached
\* story on without calling getStory and without writing the cache.
C10_CachedStoryNotFetched ==
  [][\A t \in Threads :
       (/\ hnGen[t] >= 1 /\ hnGen[t] <= Len(hnIds[t])
        /\ hnGen'[t] = hnGen[t] + 1
        /\ hnCached(hnIds[t][hnGen[t]])) =>
         /\ hnFlight'[t] = hnFlight[t] \cup
              { [pc |-> "send", id |-> hnIds[t][hnGen[t]],
                 story |-> hnCache[hnIds[t][hnGen[t]]].val, err |-> FALSE] }
         /\ hnCalls'[t] = hnCalls[t]
         /\ hnCache' = hnCache]_vars

\* C10 witness: a ticker refresh over two ids, both cached by the startup
\* refresh, has returned both cached stories without one call of getStory.
C10_Witness ==
  /\ hnListening /\ hnRet["sched"].set /\ ~hnRet["sched"].err
  /\ Len(hnRet["sched"].items) = 2
  /\ hnCalls["sched"] = 0
  /\ \A i \in 1..2 : hnRet["sched"].items[i] = hnCache[hnRet["sched"].items[i].ID].val


\* C11: every entry getStoryFromCache has written carries an expiry instant
\* at most CacheTime ahead, after which storyCache.Get no longer finds it.
C11_StoryEntriesExpire ==
  \A id \in DOMAIN hnCache :
    hnCache[id].found =>
      /\ hnCache[id].Expiration \in 1..(hnNow + CacheTime)
      /\ hnNow > hnCache[id].Expiration => ~hnCached(id)

\* C11's failure reached: at the last instant of the clock a request has
\* been answered from an entry that has no expiry instant, with no getStory.
C11_Reached ==
  /\ hnNow = MaxClock
  /\ hnPc["req"] = "responded" /\ hnResp.kind = "ok"
  /\ hnCalls["req"] = 0 /\ Len(hnResp.body.Items) = 1
  /\ \E id \in DOMAIN hnCache :
       hnCache[id].found /\ hnCache[id].Expiration = 0 /\ hnCached(id)

\* The story cache holds a story for every id upstream lists, as it does
\* after a refresh that succeeded.
hnWarm ==
  /\ hnListening /\ DOMAIN hnUpstream # {}
  /\ \A id \in DOMAIN hnUpstream : hnCache[id].found

C13_Non2xxIsAnError ==
  \A t \in Threads :
    /\ \A f \in hnFlight[t] :
         (f.pc = "send" /\ f.story = storyOf(f.id, "non2xx")) => f.err
    /\ (hnRet[t].set /\ ~hnRet[t].err) =>
         \A i \in 1..Len(hnRet[t].items) :
           hnRet[t].items[i] # storyOf(hnRet[t].items[i].ID, "non2xx")

\* C13's failure reached: the one story lookup of a refresh got a non-2xx
\* response, no error was counted, getStories returned the blank story with
\* a nil error and the story cache holds it.
C13_Reached ==
  /\ hnRet["sched"].set /\ ~hnRet["sched"].err /\ hnErrs["sched"] = 0
  /\ hnCalls["sched"] = 1 /\ Len(hnRet["sched"].items) = 1
  /\ hnRet["sched"].items[1] = storyOf(hnRet["sched"].items[1].ID, "non2xx")
  /\ hnCache[hnRet["sched"].items[1].ID].found
  /\ hnCache[hnRet["sched"].items[1].ID].val = hnRet["sched"].items[1]


\* C14: for the empty batch fixAllUrls and getStories always have a step to
\* take until they return, and they return an empty list and a nil error;
\* the feed cacheFeed then stores is the empty document.
C14_EmptyBatch ==
  \A t \in Threads :
    /\ (aoRunning /\ aoPc[t] = "drain" /\ aoItems[t] = << >>) =>
         ENABLED (gen(t) \/ aoFixerEnd(t) \/ aoCloser(t) \/ fixAllUrls(t))
    /\ (aoRet[t].set /\ aoItems[t] = << >>) =>
         /\ ~aoRet[t].err /\ aoRet[t].items = << >>
         /\ aoCache.found /\ aoCache.val.Items = << >>
    /\ (hnPc[t] = "drain" /\ hnIds[t] = << >>) =>
         ENABLED (hnPump(t) \/ hnConsumerEnd(t) \/ hnCloser(t) \/ getStories(t))
    /\ (hnRet[t].set /\ hnIds[t] = << >>) =>
         (~hnRet[t].err /\ hnRet[t].items = << >>)

\* C14 witness: getTweets returned no tweet, the deadline fired during the
\* batch, fixAllUrls has returned the empty list and the empty feed is
\* stored.
C14_Witness ==
  /\ aoTimeline = << >> /\ aoCtxDone
  /\ aoRet["sched"].set /\ ~aoRet["sched"].err /\ aoRet["sched"].items = << >>
  /\ aoCache.found /\ aoCache.val.Items = << >>


\* The normalizer's result lists, in source order and under their parsed
\* time, exactly the tweets of the timeline that keep(_) selects.
normalizerYields(keep(_)) ==
  (fnOp = "normalize" /\ fnRes.done) =>
    LET kept == { i \in 1..Len(fnArg) : keep(fnArg[i]) }
        out == fnRes.val
    IN  /\ Len(out) = Cardinality(kept)
        /\ \A k \in 1..Len(out) :
             /\ out[k].Title \in kept
             /\ out[k].Created = fnArg[out[k].Title].CreatedAt
        /\ \A k, l \in 1..Len(out) : k < l => out[k].Title < out[l].Title

hasUrl(tweet) ==
  /\ \E i \in 1..Len(tweet.Text) : tweet.Text[i] = "U"
  /\ tweet.CreatedAt # 0

hasUrlAfterSpace(tweet) ==
  /\ \E i \in 2..Len(tweet.Text) : tweet.Text[i] = "U" /\ tweet.Text[i - 1] = "s"
  /\ tweet.CreatedAt # 0

\* C15 as stated: the normalizer yields exactly the tweets that contain an
\* http(s) URL and have a well-formed timestamp, in source order.
C15_KeepsEveryUrlTweet == normalizerYields(hasUrl)

\* What the normalizer yields instead: exactly the tweets in which
\* whitespace directly precedes an http(s) URL and whose timestamp is well
\* formed, in source order.
C15_KeepsUrlAfterSpace == normalizerYields(hasUrlAfterSpace)

\* C15 witness: of two tweets with a good time the first is nothing but a
\* URL and is dropped, the second has a URL after a space and is kept.
C15_Witness ==
  /\ fnOp = "normalize" /\ fnRes.done /\ Len(fnArg) = 2
  /\ fnArg[1] = [Text |-> << "U" >>, CreatedAt |-> 1]
  /\ fnArg[2] = [Text |-> << "s", "U" >>, CreatedAt |-> 1]
  /\ Len(fnRes.val) = 1 /\ fnRes.val[1].Title = 2


ErrorReturn == [set |-> TRUE, items |-> << >>, err |-> TRUE]

\* C16: fixAllUrls and getStories return an error only in the step that
\* hands the aggregator an error result, with a nil list and the other
\* results left where they are; every error result handed to the aggregator
\* makes it return at once; after that return nothing more is collected.
C16_ReturnsOnFirstError ==
  [][\A t \in Threads :
       /\ (~aoRet[t].set /\ aoRet'[t].set /\ aoRet'[t].err) =>
            /\ aoRet'[t] = ErrorReturn /\ aoOut'[t] = aoOut[t]
            /\ \E f \in aoFlight[t] :
                 f.pc = "send" /\ f.err /\ aoFlight'[t] = aoFlight[t] \ {f}
       /\ \A f \in aoFlight[t] :
            (f.pc = "send" /\ f.err /\ f \notin aoFlight'[t]
               /\ aoDone'[t] = aoDone[t]) => aoRet'[t] = ErrorReturn
       /\ (~hnRet[t].set /\ hnRet'[t].set /\ hnRet'[t].err) =>
            /\ hnRet'[t] = ErrorReturn /\ hnOut'[t] = hnOut[t]
            /\ \E f \in hnFlight[t] :
                 f.pc = "send" /\ f.err /\ hnFlight'[t] = hnFlight[t] \ {f}
       /\ \A f \in hnFlight[t] :
            (hnPc[t] = "drain" /\ f.pc = "send" /\ f.err /\ f \notin hnFlight'[t]
               /\ hnGone'[t] = hnGone[t]) => hnRet'[t] = ErrorReturn
       /\ (hnRet[t] = ErrorReturn /\ hnRet'[t].set) =>
            (hnRet'[t] = hnRet[t] /\ hnOut'[t] = hnOut[t])
    ]_vars

\* C16 witness: two lookups of one batch failed, getStories has returned on
\* the first error result and the second is still with its worker.
C16_Witness ==
  /\ hnRet["sched"] = ErrorReturn /\ hnErrs["sched"] = 2
  /\ \E f \in hnFlight["sched"] : f.pc = "send" /\ f.err

\* The same in atlasobscura: two resolutions failed, fixAllUrls returned on
\* the first.
C16_WitnessAO ==
  /\ aoRet["sched"] = ErrorReturn /\ aoErrs["sched"] = 2
  /\ \E f \in aoFlight["sched"] : f.pc = "send" /\ f.err


\* C17: once getStories has returned an error, the id pump is never left
\* with an id to hand over while every consumer of the batch has exited, and
\* no consumer is left holding a result: nothing stays blocked forever on
\* id_chan or story_chan.
C17_NoStrandedGoroutine ==
  \A t \in Threads :
    hnRet[t] = ErrorReturn =>
      ~(/\ hnGen[t] \in 1..Len(hnIds[t])
        /\ hnIdleConsumers(t) = 0
        /\ hnFlight[t] = {})

\* C17 reached: after the error return every consumer left through
\* ctx.Done, and the id pump still holds the last id of the list.
C17_Reached ==
  /\ hnRet["sched"] = ErrorReturn
  /\ hnGone["sched"] = NumWorkers /\ hnFlight["sched"] = {}
  /\ hnGen["sched"] = Len(hnIds["sched"]) /\ hnGen["sched"] = PoolItems

\* C18: at every instant of a batch at most NumWorkers enrichment calls
\* (client.Head, getStory) are under way, however long the batch.
C18_CallsBoundedByPool ==
  \A t \in Threads :
    /\ Cardinality({ f \in aoFlight[t] : f.pc = "head" }) <= NumWorkers
    /\ Cardinality({ f \in hnFlight[t] : f.pc = "fetch" }) <= NumWorkers

\* C18 witness: every fixer is inside client.Head while gen still holds
\* items of the batch.
C18_Witness ==
  /\ Cardinality({ f \in aoFlight["sched"] : f.pc = "head" }) = NumWorkers
  /\ aoGen["sched"] <= Len(aoItems["sched"])
  /\ Len(aoItems["sched"]) > NumWorkers


notUtm(p) == ~isUtm(p)

\* C19: the URL stored for a resolved URL is that URL without its utm_*
\* query parameters, with the path and every other parameter kept.
C19_StripsOnlyUtmParams ==
  (fnOp = "utm_re" /\ fnRes.done) =>
    \E q \in Queries :
      fnArg = UrlString(q) /\ fnRes.val = UrlString(SelectSeq(q, notUtm))

\* C19 reached: the resolved URL ...a?id&utm_source is stored as it is.
C19_Reached ==
  /\ fnOp = "utm_re" /\ fnRes.done
  /\ fnArg = UrlString(<< "id", "utm_source" >>)
  /\ fnRes.val = fnArg

\* The spec's example: ...a?utm_source&utm_campaign is stored as ...a.
C19_Example ==
  (fnOp = "utm_re" /\ fnRes.done
     /\ fnArg = UrlString(<< "utm_source", "utm_campaign" >>)) =>
    fnRes.val = UrlString(<< >>)

\* The page of a thread on threadreaderapp.com: /thread/<id>.html
ThreadReaderUrl(id) ==
  [scheme |-> "https", host |-> "threadreaderapp.com",
   path |-> << "thread", << id, ".html" >> >>]

\* C20: unrollTwitterThread turns every story URL of the form
\* https://twitter.com/<user>/status/<id> into
\* https://threadreaderapp.com/thread/<id>.html.
C20_RewritesToThreadReader ==
  (fnOp = "unrollTwitterThread" /\ fnRes.done) =>
    \A idx \in 1..Len(fnArg) :
      (/\ fnArg[idx].scheme = "https" /\ fnArg[idx].host = "twitter.com"
       /\ Len(fnArg[idx].path) = 3 /\ fnArg[idx].path[2] = "status") =>
        fnRes.val[idx] = ThreadReaderUrl(fnArg[idx].path[3])

\* C20 reached: https://twitter.com/user/status/id has become
\* https://nitter.net/user/status/id.
C20_Reached ==
  /\ fnOp = "unrollTwitterThread" /\ fnRes.done /\ Len(fnArg) = 1
  /\ fnArg[1] = [scheme |-> "https", host |-> "twitter.com",
                 path |-> << "user", "status", "id" >>]
  /\ fnRes.val[1] = [scheme |-> "https", host |-> "nitter.net",
                     path |-> << "user", "status", "id" >>]


\* C21: once the cancellation signal of a batch has fired (the deadline, or
\* the cancel after the first error), no worker of the batch takes another
\* record from the input channel or starts another client.Head or getStory.
C21_NoNewWorkAfterCancel ==
  [][\A t \in Threads :
       /\ (aoCtxDone /\ aoPc[t] = "drain") =>
            /\ aoGen'[t] <= Len(aoItems[t]) + 1 => aoGen'[t] = aoGen[t]
            /\ \A f \in aoFlight'[t] \ aoFlight[t] : f.pc # "head"
       /\ (hnCtxDone(t) /\ hnGen[t] >= 1 /\ hnGen'[t] >= 1) =>
            /\ hnGen'[t] <= Len(hnIds[t]) + 1 => hnGen'[t] = hnGen[t]
            /\ hnCalls'[t] = hnCalls[t]
    ]_vars

\* C21 reached: of a list longer than the pool three ids were taken although
\* nothing but the first error was ever delivered, so the third was taken
\* after the cancel; a getStory call is under way.
C21_Reached ==
  /\ hnRet["sched"] = ErrorReturn /\ hnOut["sched"] = << >>
  /\ hnGen["sched"] = NumWorkers + 2 /\ hnCalls["sched"] = NumWorkers + 1
  /\ \E f \in hnFlight["sched"] : f.pc = "fetch"


\* C22: a batch is not already cancelled when it begins: in the step that
\* starts a refresh or a fill, the context the batch runs under is live.
C22_BatchStartsUncancelled ==
  [][\A t \in Threads :
       /\ (aoPc[t] # "reading" /\ aoPc'[t] = "reading") => ~aoCtxDone'
       /\ (hnPc[t] # "drain" /\ hnPc'[t] = "drain") => hnCtx'[t] = "live"
    ]_vars

\* C22 reached: the feed of the startup refresh is stored, main's ctx has
\* expired and the ticker's refresh is about to read the timeline under it.
C22_Reached ==
  /\ aoListening /\ aoBoot = "stored" /\ aoCtxDone
  /\ aoPc["sched"] = "reading"


\* C23: when getStory returns for a missed id, either the story it fetched
\* is stored under that id, and nothing else in the cache changes, and is on
\* its way to the aggregator, or the cache is unchanged and an error is on
\* its way; and a batch in which a lookup failed never returns stories.
C23_MissStoresOrFails ==
  /\ [](\A t \in Threads : (hnRet[t].set /\ hnErrs[t] > 0) => hnRet[t].err)
  /\ [][\A t \in Threads : \A f \in hnFlight[t] :
          (f.pc = "fetch" /\ f \notin hnFlight'[t] /\ hnGen'[t] >= 1) =>
            \E g \in hnFlight'[t] \ hnFlight[t] :
              /\ g.id = f.id /\ g.pc = "send"
              /\ hnFlight'[t] = (hnFlight[t] \ {f}) \cup {g}
              /\ IF g.err
                 THEN hnCache' = hnCache
                 ELSE /\ hnCache'[f.id].found /\ hnCache'[f.id].val = g.story
                      /\ g.story.ID = f.id
                      /\ \A id \in DOMAIN hnCache \ {f.id} : hnCache'[id] = hnCache[id]
      ]_vars

\* C23 witness: two ids were missed; the fetch of id 1 succeeded and its
\* story is stored, the fetch of id 2 failed, left no entry and made the
\* batch return the error.
C23_Witness ==
  /\ hnRet["sched"] = ErrorReturn
  /\ hnErrs["sched"] = 1 /\ hnCalls["sched"] = 2
  /\ hnCache[1].found /\ hnCache[1].val.ID = 1
  /\ \A id \in DOMAIN hnCache \ {1} : ~hnCache[id].found
  /\ \A f \in hnFlight["sched"] : f.id = 1


\* C24: the "feed" entry changes only in a step in which one batch stores
\* the document generated from the list that batch returned, whatever the
\* entry held before; a reader is handed the entry as it stands at its
\* Cache.Get, whole; so after a refresh and a fill that ran side by side the
\* entry is the document of the one that wrote last.
C24_LastWriteWins ==
  [][/\ aoCache' # aoCache =>
          \E t \in Threads :
            /\ aoPc[t] = "drain" /\ ~aoRet[t].set
            /\ aoRet'[t].set /\ ~aoRet'[t].err
            /\ aoRet'[t].items = aoSortSlice(aoOut[t])
            /\ aoCache' = aoCacheSet(genFeed(aoRet'[t].items, aoNow))
            /\ \A u \in Threads \ {t} : aoRet'[u] = aoRet[u]
     /\ (aoResp' # aoResp /\ aoResp'.kind = "ok") =>
          (aoCache.found /\ aoResp'.body = aoCache.val /\ aoCache' = aoCache)
    ]_vars

\* C24 witness: the ticker's refresh and a request's fill have both
\* returned, with different lists, and the entry is the document of the
\* fill, which wrote last.
C24_Witness ==
  /\ aoPc["sched"] = "ticked" /\ aoPc["req"] = "reget"
  /\ aoRet["sched"].set /\ ~aoRet["sched"].err
  /\ aoRet["req"].set /\ ~aoRet["req"].err
  /\ aoRet["sched"].items # aoRet["req"].items
  /\ aoCache.found /\ aoCache.val.Items = aoRet["req"].items


\* C25: nothing keeps a second batch from fetching an id that another batch
\* is fetching: while a worker of one batch is inside getStory for an
\* uncached id and the other batch has an idle worker and that id next in
\* line, the step in which that worker misses the cache and calls getStory
\* for the same id is possible.
C25_BothMayFetchSameId ==
  \A t \in Threads : \A u \in Threads \ {t} : \A f \in hnFlight[t] :
    (/\ f.pc = "fetch" /\ ~hnCached(f.id)
     /\ hnGen[u] >= 1 /\ hnGen[u] <= Len(hnIds[u])
     /\ hnIds[u][hnGen[u]] = f.id
     /\ hnIdleConsumers(u) > 0) =>
      ENABLED (/\ hnConsumerRecv(u)
               /\ \E g \in hnFlight'[u] : g.pc = "fetch" /\ g.id = f.id)

\* C25 witness: the ticker's refresh and a request each missed id 1 and
\* fetched it; the two fetches brought different stories, both results are
\* still with their workers, and the entry is the story of the request,
\* whose Set came last.
C25_Witness ==
  /\ hnCalls["sched"] = 1 /\ hnCalls["req"] = 1
  /\ \E f \in hnFlight["sched"] : \E g \in hnFlight["req"] :
       /\ f.id = 1 /\ g.id = 1 /\ f.pc = "send" /\ g.pc = "send"
       /\ ~f.err /\ ~g.err /\ f.story # g.story
       /\ hnCache[1].found /\ hnCache[1].val = g.story


\* The list a clean batch returns when the workers deliver in input order.
aoInOrder(t) == aoSortSlice([i \in 1..Len(aoItems[t]) |-> fixUrl(aoItems[t][i])])

hnInOrder(t) ==
  hnSortSlice([i \in 1..Len(hnIds[t]) |->
                 CHOOSE st \in Range(hnRet[t].items) : st.ID = hnIds[t][i]])

\* C26: a batch without failure that returned all its records returned the
\* same sequence as the run in which the workers deliver in input order, so
\* the result does not depend on the order of delivery.
C26_ResultIndependentOfDelivery ==
  \A t \in Threads :
    /\ (aoRet[t].set /\ ~aoRet[t].err /\ aoErrs[t] = 0
          /\ Len(aoRet[t].items) = Len(aoItems[t])) =>
         aoRet[t].items = aoInOrder(t)
    /\ (hnRet[t].set /\ ~hnRet[t].err /\ hnErrs[t] = 0
          /\ Len(hnRet[t].items) = Len(hnIds[t])) =>
         hnRet[t].items = hnInOrder(t)

\* C26 reached: two tweets of one instant were resolved without failure and
\* returned in the order second, first.
C26_Reached ==
  /\ aoRet["sched"].set /\ ~aoRet["sched"].err /\ aoErrs["sched"] = 0
  /\ Len(aoItems["sched"]) = 2 /\ Len(aoRet["sched"].items) = 2
  /\ aoItems["sched"][1].Created = aoItems["sched"][2].Created
  /\ aoRet["sched"].items[1].Title = 2 /\ aoRet["sched"].items[2].Title = 1

\* The same in hackernews: two stories of one timestamp returned in the
\* order second id, first id.
C26_ReachedHN ==
  /\ hnRet["sched"].set /\ ~hnRet["sched"].err /\ hnErrs["sched"] = 0
  /\ Len(hnRet["sched"].items) = 2
  /\ hnRet["sched"].items[1].Timestamp = hnRet["sched"].items[2].Timestamp
  /\ hnRet["sched"].items[1].ID = 2 /\ hnRet["sched"].items[2].ID = 1


\* C27: the result channel of a batch is closed only when every worker of
\* the batch is through with it: while it is closed no worker holds a record
\* or waits for one, so none can send on it; and once closed it is not
\* closed again.
C27_ClosedAfterWorkersStopped ==
  /\ [](\A t \in Threads :
          /\ aoClosed[t] =>
               (aoDone[t] = NumWorkers /\ aoFlight[t] = {} /\ aoIdleFixers(t) = 0)
          /\ hnClosed[t] =>
               (hnDone[t] = NumWorkers /\ hnFlight[t] = {} /\ hnIdleConsumers(t) = 0))
  /\ [][\A t \in Threads :
          /\ aoClosed[t] => ~(aoCloser(t))
          /\ hnClosed[t] => ~(hnCloser(t))
          /\ (aoClosed[t] /\ aoClosed'[t]) => aoFlight'[t] = {}
          /\ (hnClosed[t] /\ hnClosed'[t]) => hnFlight'[t] = {}
      ]_vars

\* C27 witness: in a batch longer than the pool one fixer left through
\* ctx.Done, the others at the end of the input, and the channel is closed.
C27_Witness ==
  /\ aoClosed["sched"] /\ aoCtxDone
  /\ Len(aoItems["sched"]) > NumWorkers
  /\ Len(aoOut["sched"]) < Len(aoItems["sched"]) /\ Len(aoOut["sched"]) > 0


aoRefreshing == aoPc["sched"] \in {"reading", "drain", "ticked"}
hnRefreshing == hnPc["sched"] \in {"listing", "drain", "ticked"}

\* C28: a refresh of the scheduler begins only when none is under way:
\* the step that begins it leaves the state in which the ticker goroutine
\* waits in its select (or main, for the startup refresh); and while one is
\* under way a tick cannot start another.
C28_ScheduledRefreshesDoNotOverlap ==
  /\ [](/\ aoRefreshing => ~ENABLED aoTickerFire
        /\ hnRefreshing => ~ENABLED hnTickerFire)
  /\ [][/\ (aoPc["sched"] # "reading" /\ aoPc'["sched"] = "reading") =>
             aoPc["sched"] \in {"main", "idle"}
        /\ (hnPc["sched"] # "listing" /\ hnPc'["sched"] = "listing") =>
             hnPc["sched"] \in {"main", "idle"}
      ]_vars

\* C28 witness: the listener is up and a refresh of the ticker goroutine is
\* in its drain loop with workers busy.
C28_Witness ==
  /\ aoListening /\ aoPc["sched"] = "drain"
  /\ aoFlight["sched"] # {}

=============================================================================
